---------------------------- MODULE Spec2Model ----------------------------
(***************************************************************************)
(* Model of the DNA helix visualisation core: topology generation          *)
(* (createDummyNetwork / buildStrandLinks), topology evolution             *)
(* (evolveDummyNetwork and the App evolution effect) and the deterministic *)
(* per-entity animation state (OrganicNode / OrganicLink and their caches).*)
(*                                                                         *)
(* Ids are strings in the source.  Here an id is the sequence of its       *)
(* dash-separated tokens, a letter prefix being replaced by a number:      *)
(*   n-k            <<0, k>>                                               *)
(*   f-r            <<1, r>>                                               *)
(*   b-A-B-i-r      <<2>> \o A \o B \o <<i, r>>                            *)
(*   ss-P-i-r       <<3>> \o P \o <<i, r>>                                 *)
(*   e-A-r          <<4>> \o A \o <<r>>                                    *)
(* Every Math.random() draw is an argument of the operator that models the *)
(* function drawing it; the actions choose the draws with \E.              *)
(***************************************************************************)
EXTENDS Integers, Sequences, FiniteSets, TLC

VARIABLES
    cfg,            \* VISUAL_DEFAULTS.strand / .network feature configuration
    params,         \* App networkParams (EvolutionParams)
    opts,           \* options.mutation of the running evolveDummyNetwork call
    net,            \* App networkState: [nodes, links]
    rebuildCounter, \* closure variable of the evolution effect
    event,          \* detail of the last 'dna-network-update' evolution event
    pc,             \* position inside the running generation / tick
    caller,         \* the operation that runs, or ran last
    wnodes,         \* nodes of the buildStrandLinks call that runs, or ran last
    wlinks,         \* its links array while it runs, then what it returned
    connIdx,        \* ids.forEach position of the connectivity pass
    exhausted,      \* some connectivity loop ended on its attempt budget
    organic,        \* organicNodesRef / organicLinksRef of the renderer, and
                    \* for each id the OrganicNode first constructed for it
    frame,          \* the renderer's smoothed buffers, their targets and the
                    \* delta of the last frame
    render,         \* layoutNodes, displayLinks and the links whose curve was
                    \* computed by the last frame
    backend         \* useWebSocket / useBackendIntegration: the sockets made,
                    \* wsRef, the reconnect timers, lastMessage, backendData

vars == <<cfg, params, opts, net, rebuildCounter, event, pc, caller,
          wnodes, wlinks, connIdx, exhausted, organic, frame, render, backend>>

-----------------------------------------------------------------------------
(* Bounds of the model *)

MaxNodeCount == 3   \* largest nodeCount handed to createDummyNetwork
MaxLinkCount == 3   \* largest target link count of a generation
MaxSuffix == 1      \* random id suffixes are drawn from 0..MaxSuffix
MaxNodeId == 3      \* growth is explored up to the id n-MaxNodeId
MaxCounter == 11    \* rebuildCounter is explored up to this value
MaxFrame == 2       \* the renderer is handed the ids n-0 .. n-(MaxFrame - 1)
MaxValue == 8       \* buffer values are the whole numbers 0..MaxValue
MaxDelta == 3       \* largest frame delta, in units of ln 2 / ln 2000 seconds
MaxActivation == 1  \* the activation 1 in the model's fixed-point units
MaxSockets == 3     \* WebSocket objects made by one hook instance
MaxActivity == 1    \* longest backendData.activity explored
MAX_NODES == 2      \* CONFIG.maxNodes, the most nodes a frame displays
MAX_EDGES == 1      \* CONFIG.maxEdges, the most links a frame displays
MaxRenderLinks == 2 \* longest links array handed to the renderer

Suffix == 0..MaxSuffix

-----------------------------------------------------------------------------
(* Small helpers *)

None == <<>>

Max(a, b) == IF a >= b THEN a ELSE b

Min(a, b) == IF a <= b THEN a ELSE b

Range(s) == {s[i] : i \in DOMAIN s}

\* JavaScript arr[i] with a 0-based index: undefined outside the array
At(s, i) == IF i + 1 \in DOMAIN s THEN s[i + 1] ELSE None

\* Array.prototype.slice(0, n)
Slice(s, n) == SubSeq(s, 1, Min(Len(s), n))

\* Array.prototype.indexOf, 0-based (the element is known to be present)
IndexOf(s, x) == (CHOOSE i \in DOMAIN s : s[i] = x /\ \A j \in 1..(i - 1) : s[j] # x) - 1

Ids(nodes) == [i \in DOMAIN nodes |-> nodes[i].id]

IdSet(nodes) == {nodes[i].id : i \in DOMAIN nodes}

-----------------------------------------------------------------------------
(* Node construction *)

NId(k) == <<0, k>>

FId(r) == <<1, r>>

BId(a, b, i, r) == <<2>> \o a \o b \o <<i, r>>

SId(p, i, r) == <<3>> \o p \o <<i, r>>

EId(a, r) == <<4>> \o a \o <<r>>

Node(id, layer, parentId, parentA, parentB) ==
    [id |-> id, layer |-> layer, parentId |-> parentId,
     parentA |-> parentA, parentB |-> parentB]

\* nodes.filter(node => node.layer !== ...)
baseNodes(nodes, excluded) == SelectSeq(nodes, LAMBDA n : n.layer \notin excluded)

\* strands[idx % strandCount].push(id): the ids of strand s, in order
Strand(ids, sc, s) ==
    LET cnt == IF Len(ids) > s THEN (Len(ids) - s + sc - 1) \div sc ELSE 0
    IN  [j \in 1..cnt |-> ids[(j - 1) * sc + s + 1]]

\* Math.max(...strands.map(strand => strand.length)) for n round-robin ids
maxLen(n, sc) == (n + sc - 1) \div sc

-----------------------------------------------------------------------------
(* Auxiliary node families.  d holds the random draws of the call. *)

\* d[k] for span k = i * strandCount + s: -1 when Math.random() > chance
\* skips the span, otherwise the random id suffix of its bridge (maxPerSpan
\* is 1, as shipped)
RECURSIVE bridgeSpans(_, _, _, _, _, _)
bridgeSpans(nodes, ids, c, d, k, bridges) ==
    LET sc == Max(1, c.strandCount)
    IN  IF k >= maxLen(Len(ids), sc) * sc THEN bridges
        ELSE LET i == k \div sc
                 s == k % sc
                 a == At(Strand(ids, sc, s), i)
                 b == At(Strand(ids, sc, (s + 1) % sc), i)
             IN  IF a = None \/ b = None \/ d[k] = -1
                    \/ Len(nodes) + Len(bridges) >= c.bridgeMax
                 THEN bridgeSpans(nodes, ids, c, d, k + 1, bridges)
                 ELSE bridgeSpans(nodes, ids, c, d, k + 1,
                        Append(bridges, Node(BId(a, b, i, d[k]), "bridge", None, a, b)))

addBridgeNodes(nodes, c, d) ==
    IF ~c.bridge THEN nodes
    ELSE IF Len(nodes) >= c.bridgeMax THEN nodes
    ELSE nodes \o bridgeSpans(nodes,
                    Ids(baseNodes(nodes, {"bridge", "end-noise", "sub-strand"})),
                    c, d, 0, <<>>)

BridgeDraws(nodes, c) ==
    LET n == Len(baseNodes(nodes, {"bridge", "end-noise", "sub-strand"}))
        sc == Max(1, c.strandCount)
    IN  IF ~c.bridge \/ Len(nodes) >= c.bridgeMax THEN {<<>>}
        ELSE [0..(maxLen(n, sc) * sc - 1) -> -1..MaxSuffix]

\* the chain of one parent: count nodes ss-parent-i-r[i], clamped at
\* maxTotalNodes; r holds the random id suffix of each node
RECURSIVE subChain(_, _, _, _, _, _, _)
subChain(nodes, c, parent, count, r, i, subNodes) ==
    IF i >= count \/ Len(nodes) + Len(subNodes) >= c.subMax THEN subNodes
    ELSE subChain(nodes, c, parent, count, r, i + 1,
            Append(subNodes, Node(SId(parent, i, r[i + 1]), "sub-strand", parent, None, None)))

\* d[idx] for base node idx: <<>> when Math.random() > perChance skips the
\* node, otherwise the id suffixes of its chain; cnt[idx] is the drawn count
RECURSIVE subParents(_, _, _, _, _, _, _)
subParents(nodes, ids, c, d, cnt, idx, subNodes) ==
    IF idx > Len(ids) THEN subNodes
    ELSE IF d[idx] = <<>> \/ Len(nodes) + Len(subNodes) >= c.subMax
         THEN subParents(nodes, ids, c, d, cnt, idx + 1, subNodes)
         ELSE subParents(nodes, ids, c, d, cnt, idx + 1,
                subChain(nodes, c, ids[idx], cnt[idx], d[idx], 0, subNodes))

addSubStrandNodes(nodes, c, d, cnt) ==
    IF ~c.sub THEN nodes
    ELSE IF Len(nodes) >= c.subMax THEN nodes
    ELSE nodes \o subParents(nodes,
                    Ids(baseNodes(nodes, {"bridge", "end-noise", "sub-strand"})),
                    c, d, cnt, 1, <<>>)

SubDraws(nodes, c) ==
    LET n == Len(baseNodes(nodes, {"bridge", "end-noise", "sub-strand"}))
    IN  IF ~c.sub \/ Len(nodes) >= c.subMax THEN {<<>>}
        ELSE [1..n -> {<<>>} \cup [1..c.subCount[2] -> Suffix]]

SubCounts(nodes, c) ==
    LET n == Len(baseNodes(nodes, {"bridge", "end-noise", "sub-strand"}))
    IN  IF ~c.sub \/ Len(nodes) >= c.subMax THEN {<<>>}
        ELSE [1..n -> c.subCount[1]..c.subCount[2]]

\* endIndices: the first endCount and the last endCount indices of baseNodes
endIndices(total, c) ==
    LET endCount == Max(1, (total * c.endsRange) \div 100)
    IN  [i \in 1..endCount |-> i - 1] \o [i \in 1..endCount |-> total - 1 - (i - 1)]

\* d[e] = <<position in endIndices, random id suffix>> for extra node e
RECURSIVE endNoise(_, _, _, _, _, _, _)
endNoise(nodes, ids, c, d, extraPerEnd, e, noiseNodes) ==
    IF e > extraPerEnd \/ Len(nodes) + Len(noiseNodes) >= c.endsMax THEN noiseNodes
    ELSE LET anchor == At(ids, endIndices(Len(ids), c)[d[e][1]])
         IN  IF anchor = None
             THEN endNoise(nodes, ids, c, d, extraPerEnd, e + 1, noiseNodes)
             ELSE endNoise(nodes, ids, c, d, extraPerEnd, e + 1,
                    Append(noiseNodes,
                           Node(EId(anchor, d[e][2]), "end-noise", anchor, None, None)))

addEndNoiseNodes(nodes, c, d, extraPerEnd) ==
    IF ~c.ends THEN nodes
    ELSE IF Len(nodes) >= c.endsMax THEN nodes
    ELSE LET ids == Ids(baseNodes(nodes, {"bridge", "end-noise"}))
         IN  IF Len(ids) = 0 THEN nodes
             ELSE nodes \o endNoise(nodes, ids, c, d, extraPerEnd, 1, <<>>)

EndDraws(nodes, c) ==
    LET total == Len(baseNodes(nodes, {"bridge", "end-noise"}))
    IN  IF ~c.ends \/ Len(nodes) >= c.endsMax \/ total = 0 THEN {<<>>}
        ELSE [1..c.endsExtra[2] -> (1..Len(endIndices(total, c))) \X Suffix]

\* the loop without its maxTotalNodes test
RECURSIVE floatingUnclamped(_, _, _, _, _)
floatingUnclamped(nodes, c, d, i, floatingNodes) ==
    IF i > c.floatCount THEN floatingNodes
    ELSE floatingUnclamped(nodes, c, d, i + 1,
            Append(floatingNodes, Node(FId(d[i]), "floating", None, None, None)))

\* d[i] is the random id suffix of floating node i
RECURSIVE floating(_, _, _, _, _)
floating(nodes, c, d, i, floatingNodes) ==
    IF i > c.floatCount \/ Len(nodes) + Len(floatingNodes) >= c.floatMax
    THEN floatingNodes
    ELSE floating(nodes, c, d, i + 1,
            Append(floatingNodes, Node(FId(d[i]), "floating", None, None, None)))

addFloatingNodes(nodes, c, d) ==
    IF ~c.floating THEN nodes
    ELSE IF Len(nodes) >= c.floatMax THEN nodes
    ELSE nodes \o floating(nodes, c, d, 1, <<>>)

FloatDraws(nodes, c) ==
    IF ~c.floating \/ Len(nodes) >= c.floatMax THEN {<<>>}
    ELSE [1..c.floatCount -> Suffix]

-----------------------------------------------------------------------------
(* buildStrandLinks.  The links array is a sequence of [source, target];   *)
(* linkSet and degreeMap change only inside pushLink, together with the    *)
(* array, so both are read off the array.                                  *)

Link(s, t) == [source |-> s, target |-> t]

\* the keys `${source}|${target}` recorded so far
linkSet(links) == {<<links[i].source, links[i].target>> : i \in DOMAIN links}

\* degreeMap.get(id) || 0: bumpDegree ran once per endpoint of a pushed link
degreeMap(links, id) ==
    Cardinality({i \in DOMAIN links : links[i].source = id})
    + Cardinality({i \in DOMAIN links : links[i].target = id})

\* pushLink without its source === target test
pushLinkSelfLoops(links, s, t) ==
    IF s = None \/ t = None THEN links
    ELSE IF <<s, t>> \in linkSet(links) THEN links
    ELSE Append(links, Link(s, t))

pushLink(links, s, t) ==
    IF s = None \/ t = None \/ s = t THEN links
    ELSE IF <<s, t>> \in linkSet(links) THEN links
    ELSE Append(links, Link(s, t))

\* pushLink applied to a sequence of <<source, target>> attempts, in order
RECURSIVE pushAll(_, _)
pushAll(links, attempts) ==
    IF attempts = <<>> THEN links
    ELSE pushAll(pushLink(links, Head(attempts)[1], Head(attempts)[2]), Tail(attempts))

RECURSIVE Flatten(_)
Flatten(ss) == IF ss = <<>> THEN <<>> ELSE Head(ss) \o Flatten(Tail(ss))

\* the elements of s at the positions in keep, in order
RECURSIVE Pick(_, _, _)
Pick(s, keep, i) ==
    IF i > Len(s) THEN <<>>
    ELSE (IF i \in keep THEN <<s[i]>> ELSE <<>>) \o Pick(s, keep, i + 1)

\* the nodes the strands are made of
strandIds(nodes) == Ids(baseNodes(nodes, {"bridge", "end-noise"}))

\* a spine loop that stops one pair early
spineSitesShort(strand) == [i \in 1..(Len(strand) - 2) |-> <<strand[i], strand[i + 1]>>]

\* the spine of one strand: always added
spineSites(strand) == [i \in 1..(Len(strand) - 1) |-> <<strand[i], strand[i + 1]>>]

\* one group starting at 0-based position start: anchor to each member
\* (gated by intraLinkDensity), then anchor to the next group's anchor
groupSites(strand, start, c) ==
    LET last == Min(Len(strand), start + c.groupSize)
        anchor == strand[start + 1]
    IN  [i \in 1..(last - start - 1) |->
            [pair |-> <<anchor, strand[start + 1 + i]>>, gated |-> TRUE]]
        \o (IF c.bridgeToNextGroup /\ start + c.groupSize < Len(strand)
            THEN <<[pair |-> <<anchor, strand[start + c.groupSize + 1]>>, gated |-> FALSE]>>
            ELSE <<>>)

\* strands.forEach: spine first, then the groups of the strand
strandSites(strand, c) ==
    [i \in DOMAIN spineSites(strand) |-> [pair |-> spineSites(strand)[i], gated |-> FALSE]]
    \o (IF ~c.grouping \/ c.groupSize <= 1 THEN <<>>
        ELSE Flatten([g \in 1..maxLen(Len(strand), c.groupSize) |->
                        groupSites(strand, (g - 1) * c.groupSize, c)]))

spineGroupSites(ids, c) ==
    Flatten([s \in 1..c.strandCount |-> strandSites(Strand(ids, c.strandCount, s - 1), c)])

\* pass is the set of gated sites whose Math.random() <= intraDensity draw passed
spineGroupPass(links, ids, c, pass) ==
    LET sites == spineGroupSites(ids, c)
        keep == {i \in DOMAIN sites : ~sites[i].gated \/ i \in pass}
        kept == Pick(sites, keep, 1)
    IN  pushAll(links, [i \in DOMAIN kept |-> kept[i].pair])

GroupDraws(ids, c) ==
    LET sites == spineGroupSites(ids, c)
    IN  SUBSET {i \in DOMAIN sites : sites[i].gated}

\* rung i: same-rung links to the next strand, then the diagonal links
crossRung(ids, c, i) ==
    LET sc == c.strandCount
        rung == [s \in 1..sc |->
                    <<At(Strand(ids, sc, s - 1), i), At(Strand(ids, sc, s % sc), i)>>]
        diag == [s \in 1..sc |->
                    <<At(Strand(ids, sc, s - 1), i), At(Strand(ids, sc, s % sc), i + 1)>>]
    IN  SelectSeq(rung \o diag, LAMBDA p : p[1] # None /\ p[2] # None)

crossPass(links, ids, c) ==
    IF ~c.cross THEN links
    ELSE pushAll(links,
            Flatten([r \in 1..maxLen(Len(ids), c.strandCount) |-> crossRung(ids, c, r - 1)]))

\* node (i, s): ring neighbours at offsets 1..ringNeighbors, then diagonals
spiderNode(ids, c, i, s) ==
    LET sc == c.strandCount
        current == At(Strand(ids, sc, s), i)
        ring == [o \in 1..c.ringNeighbors |->
                    <<current, At(Strand(ids, sc, (s + o) % sc), i)>>]
        diag == [sp \in 1..c.diagonalSpan |->
                    <<current, At(Strand(ids, sc, (s + 1) % sc), i + sp)>>]
    IN  IF current = None THEN <<>>
        ELSE SelectSeq(ring \o diag, LAMBDA p : p[2] # None)

spiderSites(ids, c) ==
    LET sc == c.strandCount
    IN  Flatten([k \in 1..(maxLen(Len(ids), sc) * sc) |->
                    spiderNode(ids, c, (k - 1) \div sc, (k - 1) % sc)])

\* pass is the set of sites whose Math.random() > skipChance draw passed
spiderPass(links, ids, c, pass) ==
    IF ~c.spider THEN links
    ELSE pushAll(links, Pick(spiderSites(ids, c), pass, 1))

SpiderDraws(ids, c) ==
    IF ~c.spider THEN {{}} ELSE SUBSET (DOMAIN spiderSites(ids, c))

\* bridge nodes: one link from each parent that is set
bridgeLinkSites(nodes) ==
    Flatten([i \in DOMAIN nodes |->
        IF nodes[i].layer # "bridge" THEN <<>>
        ELSE SelectSeq(<<<<nodes[i].parentA, nodes[i].id>>, <<nodes[i].parentB, nodes[i].id>>>>,
                       LAMBDA p : p[1] # None)])

\* sub-strand nodes: a link from the parent (the second, random push of the
\* same pair is always a duplicate), then the chain of each parent
subNodesOf(nodes) ==
    SelectSeq(nodes, LAMBDA n : n.layer = "sub-strand" /\ n.parentId # None)

\* byParent: parents in order of first appearance
RECURSIVE parentOrder(_, _)
parentOrder(subs, seen) ==
    IF subs = <<>> THEN <<>>
    ELSE IF Head(subs).parentId \in seen THEN parentOrder(Tail(subs), seen)
    ELSE <<Head(subs).parentId>> \o parentOrder(Tail(subs), seen \cup {Head(subs).parentId})

subLinkSites(nodes) ==
    LET subs == subNodesOf(nodes)
        parents == parentOrder(subs, {})
        chain(p) == LET list == SelectSeq(subs, LAMBDA n : n.parentId = p)
                    IN  [i \in 1..(Len(list) - 1) |-> <<list[i].id, list[i + 1].id>>]
    IN  [i \in DOMAIN subs |-> <<subs[i].parentId, subs[i].id>>]
        \o Flatten([j \in DOMAIN parents |-> chain(parents[j])])

endLinkSites(nodes) ==
    LET ends == SelectSeq(nodes, LAMBDA n : n.layer = "end-noise" /\ n.parentId # None)
    IN  [i \in DOMAIN ends |-> <<ends[i].parentId, ends[i].id>>]

auxLinkPass(links, nodes, c) ==
    LET l1 == IF c.bridge THEN pushAll(links, bridgeLinkSites(nodes)) ELSE links
        l2 == IF c.sub THEN pushAll(l1, subLinkSites(nodes)) ELSE l1
    IN  IF c.ends THEN pushAll(l2, endLinkSites(nodes)) ELSE l2

\* d[i] is the sequence of target indices (1-based) drawn for source ids[i]
extraPass(links, nodes, c, d) ==
    LET ids == Ids(nodes)
    IN  IF ~(c.extra /\ Len(ids) > 1) THEN links
        ELSE pushAll(links,
                Flatten([i \in DOMAIN ids |->
                            [k \in DOMAIN d[i] |-> <<ids[i], ids[d[i][k]]>>]]))

SeqsUpTo(S, lo, hi) == UNION {[1..k -> S] : k \in lo..hi}

ExtraDraws(nodes, c) ==
    IF ~(c.extra /\ Len(nodes) > 1) THEN {<<>>}
    ELSE [DOMAIN nodes -> SeqsUpTo(DOMAIN nodes, c.extraRange[1], c.extraRange[2])]

\* one iteration of the padding loop; si, ti are the drawn 1-based indices
padStep(links, ids, si, ti) ==
    LET source == ids[si]
        target == IF ids[ti] = source
                  THEN ids[((IndexOf(ids, source) + 1) % Len(ids)) + 1]
                  ELSE ids[ti]
    IN  pushLink(links, source, target)

\* near is the set of index pairs {idx, j} whose distance is <= distance
proxNode(nodes, c, near, idx) ==
    LET lo == Max(1, idx - c.proxWindow)
        hi == Min(Len(nodes), idx + c.proxWindow)
        cand == SelectSeq([k \in 1..(hi - lo + 1) |-> lo + k - 1],
                          LAMBDA j : j # idx /\ {idx, j} \in near)
        hits == Slice(cand, c.proxMax)
    IN  [k \in DOMAIN hits |-> <<nodes[idx].id, nodes[hits[k]].id>>]

proximityPass(links, nodes, c, near) ==
    IF ~(c.prox /\ Len(nodes) > 1) THEN links
    ELSE pushAll(links, Flatten([idx \in DOMAIN nodes |-> proxNode(nodes, c, near, idx)]))

ProxDraws(nodes, c) ==
    IF ~(c.prox /\ Len(nodes) > 1) THEN {{}}
    ELSE SUBSET {p \in {{i, j} : i, j \in DOMAIN nodes} : Cardinality(p) = 2}

\* one source of the connectivity pass; t[k] is the index drawn at attempt k
RECURSIVE connLoop(_, _, _, _, _, _, _, _)
connLoop(links, ids, c, source, needed, usedTargets, attempts, t) ==
    IF ~(Cardinality(usedTargets) < needed /\ attempts < c.maxAttempts)
    THEN [links |-> links, exhausted |-> Cardinality(usedTargets) < needed]
    ELSE LET target == ids[t[attempts + 1]]
         IN  IF target = source
             THEN connLoop(links, ids, c, source, needed, usedTargets, attempts + 1, t)
             ELSE IF c.uniqueTargets /\ target \in usedTargets
             THEN connLoop(links, ids, c, source, needed, usedTargets, attempts + 1, t)
             ELSE connLoop(pushLink(links, source, target), ids, c, source, needed,
                           usedTargets \cup {target}, attempts + 1, t)

connSource(links, ids, c, idx, t) ==
    LET minLinks == Max(1, c.minLinksPerNode)
        currentDegree == degreeMap(links, ids[idx])
    IN  IF currentDegree >= minLinks THEN [links |-> links, exhausted |-> FALSE]
        ELSE connLoop(links, ids, c, ids[idx], minLinks - currentDegree, {}, 0, t)

connectivityEnabled(nodes, c) == c.conn /\ Len(nodes) > 1

-----------------------------------------------------------------------------
(* evolveDummyNetwork: the mutation step *)

\* probabilities are 0 (never), 1 (strictly between) or 2 (always, p = 1.0);
\* Math.random() lies in [0, 1)
RandomLt(p) == IF p = 0 THEN {FALSE} ELSE IF p = 2 THEN {TRUE} ELSE BOOLEAN

RandomGt(p) == IF p = 2 THEN {FALSE} ELSE BOOLEAN

SetMax(S) == CHOOSE x \in S : \A y \in S : y <= x

\* Number(id.replace('n-', '')) is finite for the ids n-k only
nextIndex(nodes) ==
    LET indices == {nodes[i].id[2] : i \in {j \in DOMAIN nodes :
                        Len(nodes[j].id) = 2 /\ nodes[j].id[1] = 0}}
    IN  (IF indices # {} THEN SetMax(indices) ELSE Len(nodes) - 1) + 1

getNextNodeId(nodes) == NId(nextIndex(nodes))

\* o.maxNodes2 is twice maxNodes (maxNodes may end in .5)
\* the growth test without nodes.length < maxNodes
growsPastMax(nodes, o, add) == add

grows(nodes, o, add) == add /\ 2 * Len(nodes) < o.maxNodes2

addNode(nodes, o, add) ==
    IF grows(nodes, o, add)
    THEN Append(nodes, Node(getNextNodeId(nodes),
                            IF Len(nodes) < 6 THEN "input" ELSE "hidden", None, None, None))
    ELSE nodes

cascades(removed) == removed.layer \notin {"bridge", "end-noise", "sub-strand", "floating"}

removeNode(nodes, o, rem, removeIndex) ==
    IF rem /\ Len(nodes) > o.minNodes
    THEN LET removed == nodes[removeIndex]
             keep == {i \in DOMAIN nodes :
                        /\ i # removeIndex
                        /\ cascades(removed) =>
                              /\ nodes[i].parentId # removed.id
                              /\ nodes[i].parentA # removed.id
                              /\ nodes[i].parentB # removed.id}
         IN  Pick(nodes, keep, 1)
    ELSE nodes

mutate(nodes, o, add, rem, removeIndex) ==
    removeNode(addNode(nodes, o, add), o, rem, removeIndex)

RemoveDraws(nodes, o, rem) ==
    IF rem /\ Len(nodes) > o.minNodes THEN DOMAIN nodes ELSE {1}

-----------------------------------------------------------------------------
(* Feature configurations.  The numeric ranges are scaled to the model's   *)
(* node counts; the toggles are those of VISUAL_DEFAULTS.                  *)

AllOff ==
    [strandCount |-> 2,
     grouping |-> FALSE, groupSize |-> 2, bridgeToNextGroup |-> TRUE,
     cross |-> FALSE,
     spider |-> FALSE, ringNeighbors |-> 2, diagonalSpan |-> 2,
     bridge |-> FALSE, bridgeMax |-> 4,
     sub |-> FALSE, subMax |-> 4, subCount |-> <<1, 1>>,
     ends |-> FALSE, endsMax |-> 4, endsExtra |-> <<1, 1>>, endsRange |-> 10,
     spawnChance |-> 1,
     floating |-> FALSE, floatCount |-> 1, floatMax |-> 4,
     extra |-> FALSE, extraRange |-> <<0, 1>>,
     prox |-> FALSE, proxMax |-> 1, proxWindow |-> 2,
     conn |-> FALSE, minLinksPerNode |-> 2, maxAttempts |-> 2, uniqueTargets |-> TRUE,
     orderByAge |-> TRUE]

\* the shipped toggles: every link feature on, every auxiliary family off
Deployed ==
    [AllOff EXCEPT !.grouping = TRUE, !.cross = TRUE, !.spider = TRUE,
                   !.extra = TRUE, !.prox = TRUE, !.conn = TRUE]

CrossOnly == [AllOff EXCEPT !.cross = TRUE]

CrossConn == [AllOff EXCEPT !.cross = TRUE, !.conn = TRUE]

SingleStrand == [AllOff EXCEPT !.strandCount = 1, !.cross = TRUE, !.spider = TRUE]

ConnOnly == [AllOff EXCEPT !.conn = TRUE]

Families == [AllOff EXCEPT !.bridge = TRUE, !.sub = TRUE, !.ends = TRUE]

EndsOnly == [AllOff EXCEPT !.ends = TRUE]

SubEnds == [AllOff EXCEPT !.sub = TRUE, !.subMax = 2, !.ends = TRUE, !.endsMax = 3]

Floating == [AllOff EXCEPT !.floating = TRUE, !.floatMax = 4]

\* every family on, each with its own ceiling
Capped ==
    [AllOff EXCEPT !.bridge = TRUE, !.bridgeMax = 3,
                   !.sub = TRUE, !.subMax = 4, !.subCount = <<2, 2>>,
                   !.ends = TRUE, !.endsMax = 3,
                   !.floating = TRUE, !.floatCount = 2, !.floatMax = 4]

-----------------------------------------------------------------------------
(* The node sets the auxiliary families can return, over all their draws *)

bridgeOutcomes(nodes, c) == {addBridgeNodes(nodes, c, d) : d \in BridgeDraws(nodes, c)}

subOutcomes(nodes, c) ==
    {addSubStrandNodes(nodes, c, d[1], d[2]) : d \in SubDraws(nodes, c) \X SubCounts(nodes, c)}

endOutcomes(nodes, c) ==
    {addEndNoiseNodes(nodes, c, d[1], d[2]) :
        d \in EndDraws(nodes, c) \X (c.endsExtra[1]..c.endsExtra[2])}

floatOutcomes(nodes, c) == {addFloatingNodes(nodes, c, d) : d \in FloatDraws(nodes, c)}

\* createDummyNetwork: bridge, sub-strand and end-noise nodes, in this order
createExpansions(nodes, c) ==
    UNION {UNION {endOutcomes(n2, c) : n2 \in subOutcomes(n1, c)} :
           n1 \in bridgeOutcomes(nodes, c)}

\* evolveDummyNetwork: bridge and sub-strand nodes, end-noise nodes when the
\* spawnChance draw passes, then floating nodes
evolveExpansions(nodes, c) ==
    LET n2s == UNION {subOutcomes(n1, c) : n1 \in bridgeOutcomes(nodes, c)}
        n3s == UNION {{IF spawn THEN n3 ELSE n2 :
                         spawn \in RandomLt(c.spawnChance), n3 \in endOutcomes(n2, c)} :
                      n2 \in n2s}
    IN  UNION {floatOutcomes(n3, c) : n3 \in n3s}

\* the passes of buildStrandLinks that come before the padding loop
structureOutcomes(nodes, c) ==
    LET ids == strandIds(nodes)
        l1s == {spineGroupPass(<<>>, ids, c, pass) : pass \in GroupDraws(ids, c)}
        l2s == {crossPass(l1, ids, c) : l1 \in l1s}
        l3s == UNION {{spiderPass(l2, ids, c, pass) : pass \in SpiderDraws(ids, c)} :
                      l2 \in l2s}
        l4s == {auxLinkPass(l3, nodes, c) : l3 \in l3s}
    IN  UNION {{extraPass(l4, nodes, c, d) : d \in ExtraDraws(nodes, c)} : l4 \in l4s}

-----------------------------------------------------------------------------
(* OrganicNode / OrganicLink.  A string is the sequence of its char codes; *)
(* a hashToUnit value u stands for u / 10000, and a field is kept as the   *)
(* hashToUnit value it is an affine function of.                           *)

RECURSIVE Digits(_)
Digits(k) == IF k < 10 THEN <<48 + k>> ELSE Digits(k \div 10) \o <<48 + (k % 10)>>

\* the string of an id: `n-${k}`, `f-${r}`, `b-${a}-${b}-${i}-${r}`,
\* `ss-${parent}-${i}-${r}`, `e-${anchor}-${r}`
RECURSIVE idString(_)
idString(id) ==
    CASE id[1] = 0 -> <<110, 45>> \o Digits(id[2])
      [] id[1] = 1 -> <<102, 45>> \o Digits(id[2])
      [] id[1] = 2 -> <<98, 45>> \o idString(SubSeq(id, 2, 3)) \o <<45>>
                        \o idString(SubSeq(id, 4, 5)) \o <<45>> \o Digits(id[6])
                        \o <<45>> \o Digits(id[7])
      [] id[1] = 3 -> <<115, 115, 45>> \o idString(SubSeq(id, 2, 3)) \o <<45>>
                        \o Digits(id[4]) \o <<45>> \o Digits(id[5])
      [] id[1] = 4 -> <<101, 45>> \o idString(SubSeq(id, 2, 3)) \o <<45>>
                        \o Digits(id[4])

\* hash = (hash * 31 + charCode) | 0, the 32 bits kept as <<high, low>> halves
hashStep(h, ch) ==
    LET lo == h[2] * 31 + ch
        hi == h[1] * 31 + (lo \div 65536)
    IN  <<hi % 65536, lo % 65536>>

RECURSIVE hashCode(_, _)
hashCode(h, str) == IF str = <<>> THEN h ELSE hashCode(hashStep(h, Head(str)), Tail(str))

\* Math.abs(hash) % 10000 of the signed 32-bit value
hashToUnit(str) ==
    LET h == hashCode(<<0, 0>>, str)
    IN  IF h[1] < 32768
        THEN ((h[1] % 10000) * 5536 + h[2]) % 10000
        ELSE (((65535 - h[1]) % 10000) * 5536 + (65536 - h[2])) % 10000

\* the constructor body, str being String(id)
nodeState(str, id, index) ==
    LET unit(suffix) == hashToUnit(str \o suffix)
    IN  [id |-> id,
         index |-> index,
         \* seed from id + ''
         seed |-> unit(<<>>),
         \* birthTime from id + ':birth'
         birthTime |-> unit(<<58, 98, 105, 114, 116, 104>>),
         \* lifePhase from id + ':life'
         lifePhase |-> unit(<<58, 108, 105, 102, 101>>),
         \* breathRate from id + ':breath'
         breathRate |-> unit(<<58, 98, 114, 101, 97, 116, 104>>),
         \* pulseRate from id + ':pulse'
         pulseRate |-> unit(<<58, 112, 117, 108, 115, 101>>),
         \* driftPhaseX from id + ':dx'
         driftPhaseX |-> unit(<<58, 100, 120>>),
         \* driftPhaseY from id + ':dy'
         driftPhaseY |-> unit(<<58, 100, 121>>),
         \* driftPhaseZ from id + ':dz'
         driftPhaseZ |-> unit(<<58, 100, 122>>),
         \* orbitPhase from id + ':orbit'
         orbitPhase |-> unit(<<58, 111, 114, 98, 105, 116>>),
         \* orbitSpeed from id + ':orbitspeed'
         orbitSpeed |-> unit(<<58, 111, 114, 98, 105, 116, 115, 112, 101, 101, 100>>),
         \* glowIntensity from id + ':glow'
         glowIntensity |-> unit(<<58, 103, 108, 111, 119>>),
         \* colorShift from id + ':color'
         colorShift |-> unit(<<58, 99, 111, 108, 111, 114>>),
         \* morphPhase from id + ':morph'
         morphPhase |-> unit(<<58, 109, 111, 114, 112, 104>>),
         \* morphSpeed from id + ':morphspeed'
         morphSpeed |-> unit(<<58, 109, 111, 114, 112, 104, 115, 112, 101, 101, 100>>)]

\* a constructor that hashes the index along with the id
OrganicNodeIndexed(id, index) == nodeState(idString(id) \o Digits(index), id, index)

OrganicNode(id, index) == nodeState(idString(id), id, index)

\* `${sourceId}-${targetId}`
linkString(sourceId, targetId) == idString(sourceId) \o <<45>> \o idString(targetId)

OrganicLink(sourceId, targetId) ==
    LET unit(suffix) == hashToUnit(linkString(sourceId, targetId) \o suffix)
    IN  [sourceId |-> sourceId,
         targetId |-> targetId,
         \* seed from id + ''
         seed |-> unit(<<>>),
         \* flowSpeed from id + ':flow'
         flowSpeed |-> unit(<<58, 102, 108, 111, 119>>),
         \* flowPhase from id + ':phase'
         flowPhase |-> unit(<<58, 112, 104, 97, 115, 101>>),
         \* pulseWidth from id + ':pulse'
         pulseWidth |-> unit(<<58, 112, 117, 108, 115, 101>>),
         \* curvature from id + ':curv'
         curvature |-> unit(<<58, 99, 117, 114, 118>>),
         \* wobbleSpeed from id + ':wobspeed'
         wobbleSpeed |-> unit(<<58, 119, 111, 98, 115, 112, 101, 101, 100>>),
         \* wobblePhase from id + ':wobphase'
         wobblePhase |-> unit(<<58, 119, 111, 98, 112, 104, 97, 115, 101>>),
         \* wobbleAmp from id + ':wobamp'
         wobbleAmp |-> unit(<<58, 119, 111, 98, 97, 109, 112>>),
         \* intensity from id + ':intensity'
         intensity |-> unit(<<58, 105, 110, 116, 101, 110, 115, 105, 116, 121>>)]

\* the hash-derived part of an OrganicNode: everything but id and index
derived(o) == [f \in (DOMAIN o) \ {"id", "index"} |-> o[f]]

\* a Map is the function from its keys to their values
EmptyMap == [key \in {} |-> 0]

\* no cache holds anything: the refs right after the component mounted
NoOrganic == [nodes |-> EmptyMap, links |-> EmptyMap, first |-> EmptyMap]

MapHas(m, key) == key \in DOMAIN m

MapGet(m, key) == m[key]

MapSet(m, key, value) ==
    [k \in (DOMAIN m) \cup {key} |-> IF k = key THEN value ELSE m[k]]

MapDelete(m, keys) == [k \in (DOMAIN m) \ keys |-> m[k]]

-----------------------------------------------------------------------------
(* Frame smoothing.  A buffer is one Float32Array cell; the representable  *)
(* values are the whole numbers.  delta is counted in units of             *)
(* ln 2 / ln 2000 seconds (about 91 ms), for which 0.0005^delta = 2^-delta. *)

Buffers == {"positions", "colors", "sizes"}

\* the refs after mounting: zeroed arrays, currentSizes.fill(1)
NoFrame ==
    [current |-> [b \in Buffers |-> IF b = "sizes" THEN 1 ELSE 0],
     target |-> [b \in Buffers |-> 0],
     delta |-> 0]

\* Math.pow(0.0005, delta) as a fraction
decay(delta) == [num |-> 1, den |-> 2 ^ delta]

\* a factor that is linear in delta, as in lerp(a, b, delta * 2)
smoothFactorLinear(delta) == [num |-> 2 * delta, den |-> 1]

\* 1 - Math.pow(0.0005, delta)
smoothFactor(delta) == [num |-> decay(delta).den - decay(delta).num, den |-> decay(delta).den]

\* the store into a Float32Array rounds num / den to the nearest value
fround(num, den) == (2 * num + den) \div (2 * den)

\* lerp(a, b, t) = a + (b - a) * t, stored
lerp(a, b, t) == fround(a * t.den + (b - a) * t.num, t.den)

-----------------------------------------------------------------------------
(* The renderer's topology pass.  An operator that is handed an array       *)
(* returns, next to its result, that array as the call leaves it.           *)

\* String(id).replace(/\D/g, '')
digitsOnly(str) == SelectSeq(str, LAMBDA ch : ch >= 48 /\ ch <= 57)

\* Number(digits) || 0
RECURSIVE toNumber(_, _)
toNumber(acc, str) ==
    IF str = <<>> THEN acc ELSE toNumber(acc * 10 + (Head(str) - 48), Tail(str))

ageIndex(node) == toNumber(0, digitsOnly(idString(node.id)))

\* Array.prototype.sort, which is stable: an element goes after those that
\* compare before it and after the equal ones that preceded it.
\* before[i][j] tells whether the comparator puts s[i] before s[j].
stableSort(s, before) ==
    LET pos(i) == 1 + Cardinality({j \in DOMAIN s :
                        before[j][i] \/ (~before[i][j] /\ j < i)})
    IN  [p \in DOMAIN s |-> s[CHOOSE i \in DOMAIN s : pos(i) = p]]

\* (a, b) => aIdx - bIdx
ageBefore(list) ==
    [i \in DOMAIN list |-> [j \in DOMAIN list |-> ageIndex(list[i]) < ageIndex(list[j])]]

\* nodes.sort(...).slice(0, MAX_NODES): the sort applied to the array itself
layoutNodesInPlace(nodes, c) ==
    LET sorted == IF ~c.orderByAge THEN nodes
                  ELSE stableSort(nodes, ageBefore(nodes))
    IN  [nodes |-> sorted, layoutNodes |-> Slice(sorted, MAX_NODES)]

\* the layoutNodes memo: slice copies, [...list] copies again before sort
layoutNodes(nodes, c) ==
    LET list == Slice(nodes, MAX_NODES)
    IN  [nodes |-> nodes,
         layoutNodes |-> IF ~c.orderByAge THEN list
                         ELSE stableSort(list, ageBefore(list))]

\* a < b on strings: the first differing code unit decides, a prefix is less
strLess(a, b) ==
    \E k \in 1..Len(b) :
        /\ \A j \in 1..(k - 1) : j <= Len(a) /\ a[j] = b[j]
        /\ (k > Len(a) \/ a[k] < b[k])

\* the comparator of displayLinks: by source, then by target
linkBefore(list) ==
    [i \in DOMAIN list |-> [j \in DOMAIN list |->
        \/ strLess(idString(list[i].source), idString(list[j].source))
        \/ /\ list[i].source = list[j].source
           /\ strLess(idString(list[i].target), idString(list[j].target))]]

\* a membership test that lets every id through
hasAny(displayNodes, id) == TRUE

\* nodeIds.has(id), nodeMap.get(id): both are keyed by the displayNodes ids
has(displayNodes, id) == id \in IdSet(displayNodes)

\* filter copies, sort and slice work on the copy
displayLinks(links, displayNodes) ==
    LET valid == SelectSeq(links, LAMBDA l : has(displayNodes, l.source)
                                             /\ has(displayNodes, l.target))
    IN  [links |-> links,
         displayLinks |-> Slice(stableSort(valid, linkBefore(valid)), MAX_EDGES)]

\* the links that get past `if (!src || !tgt) continue`
curveLinks(shown, displayNodes) ==
    SelectSeq(shown, LAMBDA l : has(displayNodes, l.source) /\ has(displayNodes, l.target))

\* before the first frame
NoRender == [layoutNodes |-> <<>>, displayLinks |-> <<>>, curves |-> <<>>]

\* useWebSocket and useBackendIntegration before their effects ran
NoBackend ==
    [mounted |-> FALSE,       \* the effect of useWebSocket ran
     cleaned |-> FALSE,       \* its clean-up ran
     sockets |-> <<>>,        \* readyState of every WebSocket made, in order
     wsRef |-> 0,             \* wsRef.current: position in sockets, 0 for null
     timers |-> 0,            \* reconnect timeouts that are pending
     refPending |-> FALSE,    \* reconnectTimeoutRef.current is one of them
     connected |-> FALSE,
     received |-> None,       \* event.data of the last message
     lastMessage |-> None,
     data |-> [state |-> None, network |-> None, visualization |-> None,
               activity |-> None, thought |-> None]]

-----------------------------------------------------------------------------
(* createDummyNetwork *)

baseLayer(i, nodeCount) ==
    IF i < 6 THEN "input" ELSE IF i > nodeCount - 7 THEN "output" ELSE "hidden"

createNodes(nodeCount) ==
    [i \in 1..nodeCount |-> Node(NId(i - 1), baseLayer(i - 1, nodeCount), None, None, None)]

NoEvent == [kind |-> "none", linksRebuilt |-> FALSE, nodesChanged |-> FALSE,
            rebuildCounter |-> 0, nodeCount |-> 0, linkCount |-> 0]

NoParams == [targetNodeCount |-> 0, targetLinkCount |-> 0, growthRate |-> 0,
             pruningRate |-> 0, linkStability |-> 0]

EmptyNet == [nodes |-> <<>>, links |-> <<>>]

Options(linkCount, addP, remP, minNodes, maxNodes2) ==
    [linkCount |-> linkCount, addProbability |-> addP, removeProbability |-> remP,
     minNodes |-> minNodes, maxNodes2 |-> maxNodes2]

\* createDummyNetwork(nodeCount, linkCount) is about to run
Creating(c, nodeCount, o) ==
    /\ cfg = c
    /\ opts = o
    /\ net = EmptyNet
    /\ rebuildCounter = 0
    /\ event = NoEvent
    /\ pc = "create"
    /\ caller = "create"
    /\ wnodes = createNodes(nodeCount)
    /\ wlinks = <<>>
    /\ connIdx = 0
    /\ exhausted = FALSE
    /\ organic = NoOrganic
    /\ frame = NoFrame
    /\ render = NoRender
    /\ backend = NoBackend

CreateBegin ==
    /\ pc = "create"
    /\ wnodes' \in createExpansions(wnodes, cfg)
    /\ pc' = "links"
    /\ UNCHANGED <<render, backend, frame, organic, cfg, params, opts, net, rebuildCounter, event, caller,
                   wlinks, connIdx, exhausted>>

-----------------------------------------------------------------------------
(* The steps of buildStrandLinks(wnodes, opts.linkCount) *)

StructurePass ==
    /\ pc = "links"
    /\ wlinks' \in structureOutcomes(wnodes, cfg)
    /\ pc' = "pad"
    /\ exhausted' = FALSE
    /\ UNCHANGED <<render, backend, frame, organic, cfg, params, opts, net, rebuildCounter, event, caller,
                   wnodes, connIdx>>

padding == Len(wlinks) < opts.linkCount /\ Len(wnodes) > 1

PadStep ==
    /\ pc = "pad"
    /\ padding
    /\ \E si, ti \in DOMAIN wnodes : wlinks' = padStep(wlinks, Ids(wnodes), si, ti)
    /\ UNCHANGED <<render, backend, frame, organic, cfg, params, opts, net, rebuildCounter, event, pc, caller,
                   wnodes, connIdx, exhausted>>

ProximityPass ==
    /\ pc = "pad"
    /\ ~padding
    /\ \E near \in ProxDraws(wnodes, cfg) :
          wlinks' = proximityPass(wlinks, wnodes, cfg, near)
    /\ pc' = "conn"
    /\ connIdx' = 1
    /\ UNCHANGED <<render, backend, frame, organic, cfg, params, opts, net, rebuildCounter, event, caller,
                   wnodes, exhausted>>

\* the sources from connIdx on that the forEach does not return early for
needy == {i \in connIdx..Len(wnodes) :
            degreeMap(wlinks, wnodes[i].id) < Max(1, cfg.minLinksPerNode)}

connecting == connectivityEnabled(wnodes, cfg) /\ needy # {}

\* the forEach moves on to the next source below minLinks and runs its loop
ConnStep ==
    /\ pc = "conn"
    /\ connecting
    /\ LET idx == CHOOSE i \in needy : \A j \in needy : i <= j
       IN  /\ \E t \in [1..cfg.maxAttempts -> DOMAIN wnodes] :
                LET r == connSource(wlinks, Ids(wnodes), cfg, idx, t)
                IN  /\ wlinks' = r.links
                    /\ exhausted' = (exhausted \/ r.exhausted)
           /\ connIdx' = idx + 1
    /\ UNCHANGED <<render, backend, frame, organic, cfg, params, opts, net, rebuildCounter, event, pc, caller, wnodes>>

\* return links.slice(0, linkCount)
returning == pc = "conn" /\ ~connecting

returned == Slice(wlinks, opts.linkCount)

CreateEnd ==
    /\ returning
    /\ caller = "create"
    /\ net' = [nodes |-> wnodes, links |-> returned]
    /\ wlinks' = returned
    /\ pc' = "idle"
    /\ UNCHANGED <<render, backend, frame, organic, cfg, params, opts, rebuildCounter, event, caller,
                   wnodes, connIdx, exhausted>>

Generate == StructurePass \/ PadStep \/ ProximityPass \/ ConnStep

-----------------------------------------------------------------------------
(* Generation on its own: createDummyNetwork(nodeCount, linkCount) *)

GenConfigs == {AllOff, Deployed, CrossOnly, SingleStrand, ConnOnly, Families}

GenInit ==
    /\ params = NoParams
    /\ \E c \in GenConfigs, nodeCount \in 0..MaxNodeCount, linkCount \in 0..MaxLinkCount :
          Creating(c, nodeCount, Options(linkCount, 0, 0, 0, 0))

GenNext == CreateBegin \/ Generate \/ CreateEnd

GenSpec == GenInit /\ [][GenNext]_vars

\* the call runs to its end, and a random draw that some value of makes the
\* padding loop advance is eventually drawn with that value: a step that
\* changes the state is taken whenever one is possible
GenFairConfigs == {AllOff, CrossOnly, ConnOnly}

GenFairInit ==
    /\ params = NoParams
    /\ \E c \in GenFairConfigs, nodeCount \in 0..MaxNodeCount, linkCount \in 0..MaxLinkCount :
          Creating(c, nodeCount, Options(linkCount, 0, 0, 0, 0))

GenFairSpec == GenFairInit /\ [][GenNext]_vars /\ WF_vars(GenNext)

-----------------------------------------------------------------------------
(* buildStrandLinks as one call: every link array it can return *)

\* the arrays the padding loop can leave behind; an array it can extend no
\* further but that is still short has no outcome (the loop does not end)
RECURSIVE padOutcomes(_, _, _)
padOutcomes(S, ids, linkCount) ==
    LET todo == {l \in S : Len(l) < linkCount /\ Len(ids) > 1}
        longer == {padStep(l, ids, d[1], d[2]) :
                     l \in todo, d \in (DOMAIN ids) \X (DOMAIN ids)} \ todo
    IN  IF todo = {} THEN S
        ELSE (S \ todo) \cup padOutcomes(longer, ids, linkCount)

proximityOutcomes(S, nodes, c) ==
    UNION {{proximityPass(l, nodes, c, near) : near \in ProxDraws(nodes, c)} : l \in S}

RECURSIVE connOutcomes(_, _, _, _)
connOutcomes(S, nodes, c, idx) ==
    IF ~connectivityEnabled(nodes, c) \/ idx > Len(nodes) THEN S
    ELSE connOutcomes(
            UNION {{connSource(l, Ids(nodes), c, idx, t).links :
                      t \in [1..c.maxAttempts -> DOMAIN nodes]} : l \in S},
            nodes, c, idx + 1)

buildStrandLinks(nodes, linkCount, c) ==
    {Slice(l, linkCount) :
        l \in connOutcomes(
                proximityOutcomes(
                    padOutcomes(structureOutcomes(nodes, c), Ids(nodes), linkCount),
                    nodes, c),
                nodes, c, 1)}

createDummyNetwork(nodeCount, linkCount, c) ==
    UNION {{[nodes |-> n, links |-> l] : l \in buildStrandLinks(n, linkCount, c)} :
           n \in createExpansions(createNodes(nodeCount), c)}

\* evolveDummyNetwork(prev, options) with mutationOnly: growth, pruning, the
\* auxiliary refresh and buildStrandLinks.  updateNodesFromLinks rewrites only
\* activation and active, which a node does not carry here.  A new id stays
\* within the explored ids.
evolveDummyNetwork(prev, o, c) ==
    UNION {UNION {{[nodes |-> n, links |-> l] : l \in buildStrandLinks(n, o.linkCount, c)} :
                  n \in evolveExpansions(mutate(prev.nodes, o, d[1], d[2], d[3]), c)} :
           d \in {e \in RandomLt(o.addProbability) \X RandomLt(o.removeProbability)
                        \X (1..(Len(prev.nodes) + 1)) :
                    /\ e[3] \in RemoveDraws(addNode(prev.nodes, o, e[1]), o, e[2])
                    /\ grows(prev.nodes, o, e[1]) => nextIndex(prev.nodes) <= MaxNodeId}}

\* the App state right after createDummyNetwork, or an evolve-only state
Running(c, p, o, n) ==
    /\ cfg = c
    /\ params = p
    /\ opts = o
    /\ net = n
    /\ rebuildCounter = 0
    /\ event = NoEvent
    /\ pc = "idle"
    /\ caller = "create"
    /\ wnodes = n.nodes
    /\ wlinks = n.links
    /\ connIdx = 0
    /\ exhausted = FALSE
    /\ organic = NoOrganic
    /\ frame = NoFrame
    /\ render = NoRender
    /\ backend = NoBackend

-----------------------------------------------------------------------------
(* evolveDummyNetwork(prev, options) applied repeatedly with fixed options *)

Evolve ==
    /\ \E next \in evolveDummyNetwork(net, opts, cfg) :
          /\ net' = next
          /\ wnodes' = next.nodes
          /\ wlinks' = next.links
    /\ caller' = "evolve"
    /\ UNCHANGED <<render, backend, frame, organic, cfg, params, opts, rebuildCounter, event, pc, connIdx, exhausted>>

EvolveConfigs == {AllOff, EndsOnly}

EvolveOptions ==
    {Options(1, a, r, 2, m) : a \in {1, 2}, r \in {0, 1}, m \in {6, 7}}

EvolveInit ==
    \E c \in EvolveConfigs, nodeCount \in 1..2, o \in EvolveOptions :
        \E n \in createDummyNetwork(nodeCount, o.linkCount, c) :
            Running(c, NoParams, o, n)

EvolveNext == Evolve

EvolveSpec == EvolveInit /\ [][EvolveNext]_vars

-----------------------------------------------------------------------------
(* The App: networkState, networkParams and the evolution effect *)

minRebuildInterval == 10

evolutionParams(p) ==
    Options(p.targetLinkCount, p.growthRate, p.pruningRate,
            Max(2, p.targetNodeCount \div 2),
            Max(2 * (p.targetNodeCount + 10), 3 * p.targetNodeCount))

nodesChanged(prev, next) ==
    \/ Len(next.nodes) # Len(prev.nodes)
    \/ ~\A i \in DOMAIN next.nodes :
           \E j \in DOMAIN prev.nodes : prev.nodes[j].id = next.nodes[i].id

existingLinks(prev, next) ==
    SelectSeq(prev.links,
              LAMBDA link : /\ \E i \in DOMAIN next.nodes : next.nodes[i].id = link.source
                            /\ \E i \in DOMAIN next.nodes : next.nodes[i].id = link.target)

\* the threshold rounded up instead of down
enoughLinksCeil(p) == (p.targetLinkCount * 6 + 9) \div 10

\* Math.floor(targetLinkCount * 0.6)
enoughLinks(p) == (p.targetLinkCount * 6) \div 10

\* the rebuild decision without the minimum interval
shouldRebuildAnyTick(prev, next, counter, draw) == nodesChanged(prev, next) \/ draw

shouldRebuildLinks(prev, next, counter, draw) ==
    nodesChanged(prev, next) \/ (counter >= minRebuildInterval /\ draw)

\* the state update of one tick; draw is Math.random() > linkStability
tick(prev, next, p, counter, draw) ==
    LET should == shouldRebuildLinks(prev, next, counter, draw)
        existing == existingLinks(prev, next)
        retain == ~should /\ Len(prev.links) > 0 /\ Len(existing) >= enoughLinks(p)
        linksRebuilt == IF ~should /\ Len(prev.links) > 0 THEN ~retain ELSE should
        result == IF retain THEN [next EXCEPT !.links = existing] ELSE next
        counter2 == IF linksRebuilt THEN 0 ELSE counter + 1
    IN  [net |-> result,
         rebuildCounter |-> counter2,
         event |-> [kind |-> "ai-driven-evolution",
                    linksRebuilt |-> linksRebuilt,
                    nodesChanged |-> nodesChanged(prev, next),
                    rebuildCounter |-> counter2,
                    nodeCount |-> Len(result.nodes),
                    linkCount |-> Len(result.links)]]

\* one firing of the evolution interval; wnodes and wlinks keep what
\* evolveDummyNetwork returned
Tick ==
    /\ \E next \in evolveDummyNetwork(net, evolutionParams(params), cfg),
          draw \in RandomGt(params.linkStability) :
          LET r == tick(net, next, params, rebuildCounter, draw)
          IN  /\ r.rebuildCounter <= MaxCounter
              /\ net' = r.net
              /\ rebuildCounter' = r.rebuildCounter
              /\ event' = r.event
              /\ wnodes' = next.nodes
              /\ wlinks' = next.links
    /\ opts' = evolutionParams(params)
    /\ caller' = "tick"
    /\ UNCHANGED <<render, backend, frame, organic, cfg, params, pc, connIdx, exhausted>>

ParamSet ==
    [targetNodeCount : {2}, targetLinkCount : {1, 2, 4}, growthRate : {1},
     pruningRate : {1}, linkStability : {1}]

\* setNetworkParams: the effect depends on networkParams, so it is torn down
\* and set up again, with a new rebuildCounter
ParamUpdate ==
    /\ \E p \in ParamSet : params' = p
    /\ rebuildCounter' = 0
    /\ caller' = "params"
    /\ UNCHANGED <<render, backend, frame, organic, cfg, opts, net, event, pc, wnodes, wlinks, connIdx, exhausted>>

AppConfigs == {CrossConn}

Init ==
    \E c \in AppConfigs, nodeCount \in 0..MaxNodeCount, p \in ParamSet :
        \E n \in createDummyNetwork(nodeCount, p.targetLinkCount, c) :
            Running(c, p, Options(p.targetLinkCount, 0, 0, 0, 0), n)

Next == Tick \/ ParamUpdate

Spec == Init /\ [][Next]_vars

-----------------------------------------------------------------------------
(* The App with auxiliary families switched on and networkParams left alone *)

AuxConfigs == {SubEnds}

AuxParams ==
    [targetNodeCount |-> 2, targetLinkCount |-> 1, growthRate |-> 1,
     pruningRate |-> 1, linkStability |-> 1]

AuxInit ==
    \E c \in AuxConfigs, nodeCount \in 1..2 :
        \E n \in createDummyNetwork(nodeCount, AuxParams.targetLinkCount, c) :
            Running(c, AuxParams, Options(AuxParams.targetLinkCount, 0, 0, 0, 0), n)

AuxNext == Tick

AuxSpec == AuxInit /\ [][AuxNext]_vars

-----------------------------------------------------------------------------
(* The App with floating nodes switched on *)

FloatConfigs == {Floating}

FloatInit ==
    \E c \in FloatConfigs, nodeCount \in 1..2 :
        \E n \in createDummyNetwork(nodeCount, AuxParams.targetLinkCount, c) :
            Running(c, AuxParams, Options(AuxParams.targetLinkCount, 0, 0, 0, 0), n)

FloatNext == Tick

FloatSpec == FloatInit /\ [][FloatNext]_vars

-----------------------------------------------------------------------------
(* The auxiliary families called one at a time on the node set at hand *)

FamilyNames == {"bridge", "sub", "ends", "floating"}

familyOutcomes(family, nodes, c) ==
    CASE family = "bridge" -> bridgeOutcomes(nodes, c)
      [] family = "sub" -> subOutcomes(nodes, c)
      [] family = "ends" -> endOutcomes(nodes, c)
      [] family = "floating" -> floatOutcomes(nodes, c)

familyEnabled(family, c) ==
    CASE family = "bridge" -> c.bridge
      [] family = "sub" -> c.sub
      [] family = "ends" -> c.ends
      [] family = "floating" -> c.floating

maxTotalNodes(family, c) ==
    CASE family = "bridge" -> c.bridgeMax
      [] family = "sub" -> c.subMax
      [] family = "ends" -> c.endsMax
      [] family = "floating" -> c.floatMax

\* nodes = addBridgeNodes(nodes), addSubStrandNodes(nodes), ...; wnodes keeps
\* the argument of the call
AddFamily ==
    /\ \E family \in FamilyNames :
          /\ \E n \in familyOutcomes(family, net.nodes, cfg) :
                net' = [net EXCEPT !.nodes = n]
          /\ caller' = family
    /\ wnodes' = net.nodes
    /\ UNCHANGED <<render, backend, frame, organic, cfg, params, opts, rebuildCounter, event, pc,
                   wlinks, connIdx, exhausted>>

FamilyConfigs == {Capped, SubEnds, AllOff}

FamilyInit ==
    \E c \in FamilyConfigs, nodeCount \in 0..MaxNodeCount :
        Running(c, NoParams, Options(0, 0, 0, 0, 0),
                [nodes |-> createNodes(nodeCount), links |-> <<>>])

FamilyNext == AddFamily

FamilySpec == FamilyInit /\ [][FamilyNext]_vars

-----------------------------------------------------------------------------
(* The App in mock mode with the activation and the active flag of every    *)
(* node carried in networkState: the pulse interval next to the evolution   *)
(* interval                                                                 *)

\* clamp(value, min, max)
clamp(value, min, max) == Min(max, Max(min, value))

\* { ...node, activation, active }
withState(node, activation, active) ==
    [id |-> node.id, layer |-> node.layer, parentId |-> node.parentId,
     parentA |-> node.parentA, parentB |-> node.parentB,
     activation |-> activation, active |-> active]

\* an update that builds the node from its id alone
pulseNodeBare(node, jitter, active) ==
    [id |-> node.id,
     activation |-> clamp(node.activation + jitter, 0, MaxActivation),
     active |-> active]

\* the map callback of the pulse interval; jitter is
\* (Math.random() - 0.5) * activationJitter
pulseNode(node, jitter, active) ==
    [node EXCEPT !.activation = clamp(node.activation + jitter, 0, MaxActivation),
                 !.active = active]

\* prev => ({ ...prev, nodes: prev.nodes.map(...) })
pulse(prev, d) ==
    [prev EXCEPT !.nodes = [i \in DOMAIN prev.nodes |->
                               pulseNode(prev.nodes[i], d[i][1], d[i][2])]]

\* the activation and the flag every node is created with: any activation
\* for each node, one flag for all of them
CreateDraws(nodes) ==
    {[i \in DOMAIN nodes |-> <<a[i], active>>] :
        a \in [DOMAIN nodes -> 0..MaxActivation], active \in BOOLEAN}

\* the draws of one pulse, and of one updateNodesFromLinks: explored with
\* the same jitter (or delta) and the same flag for all nodes of the call
StateDraws(nodes) ==
    {[i \in DOMAIN nodes |-> e] : e \in (-1..1) \X BOOLEAN}

\* updateNodesFromLinks: a node made by this tick starts from the activation
\* it was made with, whose lowest value is 0
updateNodesFromLinks(nodes, d) ==
    [i \in DOMAIN nodes |->
        withState(nodes[i],
                  clamp((IF "activation" \in DOMAIN nodes[i] THEN nodes[i].activation ELSE 0)
                            + d[i][1], 0, MaxActivation),
                  d[i][2])]

\* one firing of the pulse interval
Pulse ==
    /\ \E d \in StateDraws(net.nodes) : net' = pulse(net, d)
    /\ caller' = "pulse"
    /\ UNCHANGED <<render, backend, frame, organic, cfg, params, opts, rebuildCounter,
                   event, pc, wnodes, wlinks, connIdx, exhausted>>

\* one firing of the evolution interval, the node states included
PulseTick ==
    /\ \E grown \in evolveDummyNetwork(net, evolutionParams(params), cfg),
          draw \in RandomGt(params.linkStability) :
          \E d \in StateDraws(grown.nodes) :
              LET next == [grown EXCEPT !.nodes = updateNodesFromLinks(grown.nodes, d)]
                  r == tick(net, next, params, rebuildCounter, draw)
              IN  /\ r.rebuildCounter <= MaxCounter
                  /\ net' = r.net
                  /\ rebuildCounter' = r.rebuildCounter
                  /\ event' = r.event
                  /\ wnodes' = next.nodes
                  /\ wlinks' = next.links
    /\ opts' = evolutionParams(params)
    /\ caller' = "tick"
    /\ UNCHANGED <<render, backend, frame, organic, cfg, params, pc, connIdx, exhausted>>

\* no growth: the networks of up to MaxNodeId + 1 nodes with their states
\* are too many to explore
PulseParams ==
    [targetNodeCount |-> 2, targetLinkCount |-> 1, growthRate |-> 0,
     pruningRate |-> 1, linkStability |-> 1]

\* createDummyNetwork gives every node an activation and an active flag
PulseInit ==
    \E nodeCount \in {3} :
        \E n \in createDummyNetwork(nodeCount, PulseParams.targetLinkCount, CrossOnly) :
            \E d \in CreateDraws(n.nodes) :
                Running(CrossOnly, PulseParams,
                        Options(PulseParams.targetLinkCount, 0, 0, 0, 0),
                        [n EXCEPT !.nodes = [i \in DOMAIN n.nodes |->
                                                withState(n.nodes[i], d[i][1], d[i][2])]])

PulseNext == Pulse \/ PulseTick

PulseSpec == PulseInit /\ [][PulseNext]_vars

-----------------------------------------------------------------------------
(* useWebSocket and the message handler of useBackendIntegration.  A JS     *)
(* value is an object {type, payload} or a string; a string is told by     *)
(* what JSON.parse makes of it.                                            *)

Object(type, payload) == [kind |-> "object", type |-> type, payload |-> payload]

\* a string that is not JSON
Garbage == [kind |-> "string", json |-> [kind |-> "none"]]

Thrown == [kind |-> "thrown"]

\* JSON.stringify(value)
JSONstringify(value) == [kind |-> "string", json |-> value]

\* JSON.parse(value): a string is parsed; any other argument is converted
\* with String() first, and "[object Object]" is not JSON
JSONparse(value) ==
    IF value.kind = "string" /\ value.json.kind # "none" THEN value.json ELSE Thrown

\* BACKEND.wsMessages, inbound, and one type the handler does not know
MessageTypes ==
    {"state_update", "network_update", "viz_update", "activity", "thought", "error"}

fieldOf(type) ==
    CASE type = "state_update" -> "state"
      [] type = "network_update" -> "network"
      [] type = "viz_update" -> "visualization"
      [] type = "activity" -> "activity"
      [] type = "thought" -> "thought"
      [] OTHER -> "none"

Payloads == {1, 2}

\* event.data: the JSON text of a message, the JSON text of a string that
\* holds such a text, or no JSON at all
Frames ==
    {JSONstringify(Object(t, p)) : t \in MessageTypes, p \in Payloads}
        \cup {JSONstringify(JSONstringify(Object(t, p))) :
                    t \in {"state_update", "activity"}, p \in Payloads}
        \cup {Garbage}

\* connect()
connect(b) ==
    IF b.wsRef # 0 /\ b.sockets[b.wsRef] = "OPEN" THEN b
    ELSE [b EXCEPT !.sockets = Append(@, "CONNECTING"), !.wsRef = Len(b.sockets) + 1]

connects(b) == ~(b.wsRef # 0 /\ b.sockets[b.wsRef] = "OPEN")

\* the switch of the message effect, run on prev = data
handle(data, message) ==
    LET field == fieldOf(message.type)
    IN  IF field = "none" THEN data
        ELSE IF field = "activity"
             THEN [data EXCEPT !.activity = Append(data.activity, message.payload)]
             ELSE [data EXCEPT ![field] = message.payload]

\* the effect on [wsMessage]: JSON.parse(wsMessage) inside try / catch
messageEffect(data, wsMessage) ==
    LET parsed == JSONparse(wsMessage)
    IN  IF parsed.kind = "object" THEN handle(data, parsed) ELSE data

\* the effect of useWebSocket: connect()
Mount ==
    /\ ~backend.mounted /\ ~backend.cleaned
    /\ backend' = connect([backend EXCEPT !.mounted = TRUE])
    /\ caller' = "mount"
    /\ UNCHANGED <<render, frame, organic, cfg, params, opts, net, rebuildCounter, event,
                   pc, wnodes, wlinks, connIdx, exhausted>>

\* ws.onopen
OnOpen ==
    /\ \E i \in DOMAIN backend.sockets :
          /\ backend.sockets[i] = "CONNECTING"
          /\ backend' = [backend EXCEPT !.sockets[i] = "OPEN",
                                        !.connected = backend.mounted]
    /\ caller' = "open"
    /\ UNCHANGED <<render, frame, organic, cfg, params, opts, net, rebuildCounter, event,
                   pc, wnodes, wlinks, connIdx, exhausted>>

\* ws.onclose: the close event of a socket, whoever closed it
OnClose ==
    /\ \E i \in DOMAIN backend.sockets :
          /\ backend.sockets[i] # "CLOSED"
          /\ backend' = [backend EXCEPT !.sockets[i] = "CLOSED",
                                        !.connected = FALSE,
                                        !.timers = @ + 1,
                                        !.refPending = TRUE]
    /\ caller' = "close"
    /\ UNCHANGED <<render, frame, organic, cfg, params, opts, net, rebuildCounter, event,
                   pc, wnodes, wlinks, connIdx, exhausted>>

\* a reconnect timeout fires: connect()
ReconnectTimer ==
    /\ backend.timers > 0
    /\ connects(backend) => Len(backend.sockets) < MaxSockets
    /\ \E ref \in {backend.refPending, backend.refPending /\ backend.timers = 1} :
          backend' = connect([backend EXCEPT !.timers = @ - 1, !.refPending = ~ref /\ @])
    /\ caller' = "timer"
    /\ UNCHANGED <<render, frame, organic, cfg, params, opts, net, rebuildCounter, event,
                   pc, wnodes, wlinks, connIdx, exhausted>>

\* ws.onmessage, then the message effect of useBackendIntegration once
\* lastMessage has changed
OnMessage ==
    /\ backend.mounted
    /\ \E i \in DOMAIN backend.sockets, frame_data \in Frames :
          /\ backend.sockets[i] = "OPEN"
          /\ LET parsed == JSONparse(frame_data)
                 changed == parsed.kind # "thrown" /\ parsed # backend.lastMessage
                 data == IF changed THEN messageEffect(backend.data, parsed)
                         ELSE backend.data
             IN  /\ Len(data.activity) <= MaxActivity
                 /\ backend' = [backend EXCEPT
                        !.received = frame_data,
                        !.lastMessage = IF parsed.kind = "thrown" THEN @ ELSE parsed,
                        !.data = data]
    /\ caller' = "message"
    /\ UNCHANGED <<render, frame, organic, cfg, params, opts, net, rebuildCounter, event,
                   pc, wnodes, wlinks, connIdx, exhausted>>

\* the clean-up of the useWebSocket effect
WsCleanup ==
    /\ backend.mounted
    /\ backend' = [backend EXCEPT
            !.mounted = FALSE,
            !.cleaned = TRUE,
            !.timers = IF backend.refPending THEN @ - 1 ELSE @,
            !.refPending = FALSE,
            !.sockets = IF backend.wsRef = 0 THEN @
                        ELSE [@ EXCEPT ![backend.wsRef] =
                                  IF @ \in {"CONNECTING", "OPEN"} THEN "CLOSING" ELSE @]]
    /\ caller' = "cleanup"
    /\ UNCHANGED <<render, frame, organic, cfg, params, opts, net, rebuildCounter, event,
                   pc, wnodes, wlinks, connIdx, exhausted>>

BackendInit == Running(AllOff, NoParams, Options(0, 0, 0, 0, 0), EmptyNet)

BackendNext == Mount \/ OnOpen \/ OnClose \/ ReconnectTimer \/ OnMessage \/ WsCleanup

BackendSpec == BackendInit /\ [][BackendNext]_vars

-----------------------------------------------------------------------------
(* The renderer's caches of OrganicNode and OrganicLink instances *)

FrameIds == {NId(k) : k \in 0..(MaxFrame - 1)}

\* the layoutNodes positions a node is seen at: two are enough to differ
FramePositions == {0, 1}

\* getOrganicNode(nodeId, index)
getOrganicNode(o, nodeId, index) ==
    IF MapHas(o.nodes, nodeId) THEN o
    ELSE LET made == OrganicNode(nodeId, index)
         IN  [o EXCEPT !.nodes = MapSet(o.nodes, nodeId, made),
                       !.first = IF MapHas(o.first, nodeId) THEN o.first
                                 ELSE MapSet(o.first, nodeId, made)]

\* getOrganicLink(sourceId, targetId); the key is `${sourceId}->${targetId}`
getOrganicLink(o, sourceId, targetId) ==
    LET key == idString(sourceId) \o <<45, 62>> \o idString(targetId)
    IN  IF MapHas(o.links, key) THEN o
        ELSE [o EXCEPT !.links = MapSet(o.links, key, OrganicLink(sourceId, targetId))]

\* the clean-up effect: every cached node id outside layoutNodes is deleted
cleanup(o, currentIds) ==
    [o EXCEPT !.nodes = MapDelete(o.nodes, (DOMAIN o.nodes) \ currentIds)]

GetOrganicNode ==
    /\ \E nodeId \in FrameIds, index \in FramePositions :
          organic' = getOrganicNode(organic, nodeId, index)
    /\ UNCHANGED <<render, backend, frame, cfg, params, opts, net, rebuildCounter, event, pc, caller,
                   wnodes, wlinks, connIdx, exhausted>>

GetOrganicLink ==
    /\ \E sourceId, targetId \in FrameIds :
          /\ sourceId # targetId
          /\ organic' = getOrganicLink(organic, sourceId, targetId)
    /\ UNCHANGED <<render, backend, frame, cfg, params, opts, net, rebuildCounter, event, pc, caller,
                   wnodes, wlinks, connIdx, exhausted>>

Cleanup ==
    /\ \E currentIds \in SUBSET FrameIds : organic' = cleanup(organic, currentIds)
    /\ UNCHANGED <<render, backend, frame, cfg, params, opts, net, rebuildCounter, event, pc, caller,
                   wnodes, wlinks, connIdx, exhausted>>

CacheInit ==
    Running(AllOff, NoParams, Options(0, 0, 0, 0, 0), EmptyNet)

CacheNext == GetOrganicNode \/ GetOrganicLink \/ Cleanup

CacheSpec == CacheInit /\ [][CacheNext]_vars

-----------------------------------------------------------------------------
(* The renderer's frame loop: targets are recomputed, then every buffer is *)
(* smoothed toward its target                                              *)

TargetValues == {0, MaxValue}

\* getOrganicNode(node.id, i) for every displayed node
RECURSIVE visitNodes(_, _, _)
visitNodes(o, displayNodes, i) ==
    IF i >= Len(displayNodes) THEN o
    ELSE visitNodes(getOrganicNode(o, displayNodes[i + 1].id, i), displayNodes, i + 1)

\* getOrganicLink(link.source, link.target) for every link that gets a curve
RECURSIVE visitLinks(_, _)
visitLinks(o, curves) ==
    IF curves = <<>> THEN o
    ELSE visitLinks(getOrganicLink(o, Head(curves).source, Head(curves).target),
                    Tail(curves))

\* useFrame((state, delta) => ...)
useFrame(deltas, targets) ==
    /\ \E delta \in deltas, target \in targets :
          frame' = [current |-> [b \in Buffers |->
                                    lerp(frame.current[b], target[b], smoothFactor(delta))],
                    target |-> target,
                    delta |-> delta]
    /\ LET shownNodes == layoutNodes(net.nodes, cfg)
           shownLinks == displayLinks(net.links, shownNodes.layoutNodes)
           curves == curveLinks(shownLinks.displayLinks, shownNodes.layoutNodes)
       IN  /\ net' = [nodes |-> shownNodes.nodes, links |-> shownLinks.links]
           /\ render' = [layoutNodes |-> shownNodes.layoutNodes,
                         displayLinks |-> shownLinks.displayLinks,
                         curves |-> curves]
           /\ organic' = visitLinks(visitNodes(organic, shownNodes.layoutNodes, 0), curves)
    /\ caller' = "frame"
    /\ UNCHANGED <<backend, cfg, params, opts, rebuildCounter, event, pc,
                   wnodes, wlinks, connIdx, exhausted>>

UseFrame == useFrame(0..MaxDelta, [Buffers -> TargetValues])

FrameInit == Running(AllOff, NoParams, Options(0, 0, 0, 0, 0), EmptyNet)

FrameNext == UseFrame

FrameSpec == FrameInit /\ [][FrameNext]_vars

-----------------------------------------------------------------------------
(* The renderer fed with live states, dangling links included *)

RenderConfigs == {AllOff, [AllOff EXCEPT !.orderByAge = FALSE]}

\* generated sets, the set after n-0 was removed, and [n-1, f-0]: a set
\* that got a floating node and then lost n-0
RenderNodes ==
    {createNodes(nodeCount) : nodeCount \in 0..MaxNodeCount}
        \cup {Tail(createNodes(MaxNodeCount))}
        \cup {Tail(createNodes(2)) \o <<Node(FId(0), "floating", None, None, None)>>}

\* n-MaxNodeCount is in none of the node sets
RenderLinks ==
    {Link(NId(0), NId(1)), Link(NId(1), NId(0)), Link(NId(1), NId(2)),
     Link(NId(0), NId(MaxNodeCount)), Link(FId(0), NId(1))}

RenderNets(nodeSets, linkPool) ==
    {[nodes |-> n, links |-> l] :
        n \in nodeSets,
        l \in UNION {[1..len -> linkPool] : len \in 0..MaxRenderLinks}}

RenderFrame == useFrame({0}, {[b \in Buffers |-> 0]})

RenderInit ==
    \E c \in RenderConfigs, n \in RenderNets(RenderNodes, RenderLinks) :
        Running(c, NoParams, Options(0, 0, 0, 0, 0), n)

RenderNext == RenderFrame

RenderSpec == RenderInit /\ [][RenderNext]_vars

-----------------------------------------------------------------------------
(* The renderer across topology changes *)

LiveNodes ==
    {createNodes(MaxNodeCount), Tail(createNodes(MaxNodeCount)),
     Tail(createNodes(2)) \o <<Node(FId(0), "floating", None, None, None)>>}

LiveLinks ==
    {Link(NId(0), NId(1)), Link(NId(1), NId(2)), Link(NId(0), NId(MaxNodeCount))}

\* setNetworkState(next): NeuralNetwork renders again with the new props,
\* layoutNodes is recomputed and the clean-up effect runs
NetworkUpdate ==
    /\ \E next \in RenderNets(LiveNodes, LiveLinks) :
          /\ net' = next
          /\ organic' = cleanup(organic, IdSet(layoutNodes(next.nodes, cfg).layoutNodes))
    /\ caller' = "network"
    /\ UNCHANGED <<render, backend, frame, cfg, params, opts, rebuildCounter, event, pc,
                   wnodes, wlinks, connIdx, exhausted>>

LiveInit == Running(AllOff, NoParams, Options(0, 0, 0, 0, 0), EmptyNet)

LiveNext == RenderFrame \/ NetworkUpdate

LiveSpec == LiveInit /\ [][LiveNext]_vars

-----------------------------------------------------------------------------
(* Properties *)

IdsOf(links) == {links[i].source : i \in DOMAIN links} \cup {links[i].target : i \in DOMAIN links}

\* C1: on every tick whose new node membership differs from the previous
\* one, the links are rebuilt: linksRebuilt is true and the resulting links are
\* the ones evolveDummyNetwork generated on that tick.
C1_MembershipChangeRebuilds ==
    [][IdSet(net'.nodes) # IdSet(net.nodes)
          => event'.linksRebuilt /\ net'.links = wlinks']_vars

\* C2: after any sequence of ticks every link of the live state has a source
\* and a target that are ids of nodes of the live node set.
C2_LinksJoinLiveNodes == IdsOf(net.links) \subseteq IdSet(net.nodes)

\* C3: in a returned link set no unordered pair {source, target} appears
\* twice: with a -> b present there is no second a -> b and no b -> a.
C3_NoUnorderedPairTwice ==
    pc = "idle" =>
        \A i, j \in DOMAIN net.links :
            i # j => {net.links[i].source, net.links[i].target}
                     # {net.links[j].source, net.links[j].target}

\* C4: in a returned link set, for every node set and feature configuration,
\* no link has its source equal to its target.
C4_NoSelfLoop ==
    pc = "idle" => \A i \in DOMAIN net.links : net.links[i].source # net.links[i].target

\* a generation ran on one strand, where every same-rung cross link is a
\* self-loop attempt, and returned links
C4_Witness ==
    /\ pc = "idle"
    /\ cfg.strandCount = 1 /\ cfg.cross
    /\ Len(net.nodes) >= 2
    /\ Len(net.links) >= 1

\* every strand of nodes has each of its spine links exactly once in links
spineLinksIn(links, nodes, c) ==
    \A s \in 1..c.strandCount :
        LET strand == Strand(strandIds(nodes), c.strandCount, s - 1)
        IN  \A i \in 1..(Len(strand) - 1) :
                Cardinality({k \in DOMAIN links :
                               links[k] = Link(strand[i], strand[i + 1])}) = 1

C6_MinDegreeAfterConnectivity ==
    returning /\ connectivityEnabled(wnodes, cfg) /\ ~exhausted =>
        \A i \in DOMAIN wnodes :
            /\ degreeMap(wlinks, wnodes[i].id) >= Max(1, cfg.minLinksPerNode)
            /\ degreeMap(returned, wnodes[i].id) >= Max(1, cfg.minLinksPerNode)

noFamilies(c) == ~c.bridge /\ ~c.sub /\ ~c.ends /\ ~c.floating

\* C7 (as stated): with pruningRate = 0 the node count never decreases; with
\* growthRate = 1 (and no pruning) it grows by exactly one per tick while below
\* maxNodes and stays once at maxNodes; it never exceeds maxNodes.
C7_GrowthClamped ==
    [][/\ opts.removeProbability = 0 => Len(net'.nodes) >= Len(net.nodes)
       /\ opts.addProbability = 2 /\ opts.removeProbability = 0
            => Len(net'.nodes) = IF 2 * Len(net.nodes) < opts.maxNodes2
                                 THEN Len(net.nodes) + 1 ELSE Len(net.nodes)
       /\ 2 * Len(net.nodes) <= opts.maxNodes2
            => 2 * Len(net'.nodes) <= opts.maxNodes2]_vars

\* C7 (amended): with pruningRate = 0 the node count never decreases.  With
\* every auxiliary family disabled: with growthRate = 1 and pruningRate = 0 it
\* grows by exactly one per tick while below maxNodes and not at all from
\* maxNodes on, and a count that is at most maxNodes stays below maxNodes + 1
\* (at most maxNodes when maxNodes is a whole number).
C7_GrowthStep ==
    [][/\ opts.removeProbability = 0 => Len(net'.nodes) >= Len(net.nodes)
       /\ noFamilies(cfg) /\ opts.addProbability = 2 /\ opts.removeProbability = 0
            => Len(net'.nodes) = IF 2 * Len(net.nodes) < opts.maxNodes2
                                 THEN Len(net.nodes) + 1 ELSE Len(net.nodes)
       /\ noFamilies(cfg) /\ 2 * Len(net.nodes) <= opts.maxNodes2
            => 2 * Len(net'.nodes) < opts.maxNodes2 + 2]_vars

\* growth at rate 1 without pruning has reached a whole-number maxNodes
C7_Witness ==
    /\ caller = "evolve"
    /\ noFamilies(cfg)
    /\ opts.addProbability = 2 /\ opts.removeProbability = 0
    /\ 2 * Len(net.nodes) = opts.maxNodes2
    /\ NId(2) \in IdSet(net.nodes)

\* fewer than floor(0.6 * targetLinkCount) of the previous links survive
forcedRebuild(prev, nextNodes, p) ==
    /\ Len(prev.links) > 0
    /\ Len(existingLinks(prev, [nodes |-> nextNodes, links |-> <<>>])) < enoughLinks(p)

\* C8 (as stated): whenever links are rebuilt on a tick whose membership did
\* not change, rebuildCounter is at least 10 at the moment of the decision.
C8_RebuildOnlyAfterInterval ==
    [][caller' = "tick" /\ event'.linksRebuilt /\ IdSet(net'.nodes) = IdSet(net.nodes)
          => rebuildCounter >= minRebuildInterval]_vars

\* C8 (amended): whenever links are rebuilt on a tick whose membership did
\* not change, either rebuildCounter is at least 10 at the moment of the
\* decision, or the rebuild is the forced one: the previous state had links and
\* fewer than floor(0.6 * targetLinkCount) of them survive.
C8_RebuildAfterIntervalOrForced ==
    [][caller' = "tick" /\ event'.linksRebuilt /\ IdSet(net'.nodes) = IdSet(net.nodes)
          => \/ rebuildCounter >= minRebuildInterval
             \/ forcedRebuild(net, net'.nodes, params)]_vars

\* a tick rebuilt links with the membership unchanged where no rebuild can be
\* forced (floor(0.6 * targetLinkCount) = 0)
C8_Witness ==
    /\ caller = "tick"
    /\ event.linksRebuilt
    /\ ~event.nodesChanged
    /\ enoughLinks(params) = 0

\* C9: link generation on a node set of 0 or 1 nodes returns an empty link
\* set, for every link count and feature configuration.
C9_TinyNodeSetNoLinks == pc = "idle" /\ Len(wnodes) <= 1 => wlinks = <<>>

\* C10: the hash-derived state of a cached OrganicNode equals that of the
\* OrganicNode first constructed for its id, whatever was evicted and
\* re-created in between, and a cached OrganicLink equals a fresh
\* OrganicLink of its source and target.
C10_StateIsFunctionOfId ==
    /\ \A id \in DOMAIN organic.nodes :
          derived(MapGet(organic.nodes, id)) = derived(MapGet(organic.first, id))
    /\ \A key \in DOMAIN organic.links :
          MapGet(organic.links, key) = OrganicLink(MapGet(organic.links, key).sourceId,
                                                   MapGet(organic.links, key).targetId)

\* a node was evicted and constructed again, at another index
C10_Witness ==
    \E id \in DOMAIN organic.nodes :
        MapGet(organic.nodes, id).index # MapGet(organic.first, id).index

\* C11: for every node set of at least 2 nodes and every target linkCount,
\* link generation returns exactly linkCount links, and a returned set never
\* has more than linkCount links.
C11_ReturnsExactlyLinkCount ==
    /\ [](pc = "links" /\ Len(wnodes) >= 2
            => <>(pc = "idle" /\ Len(net.links) = opts.linkCount))
    /\ [](pc = "idle" => Len(net.links) <= opts.linkCount)

\* C12: for every node count and every target link count, generation returns
\* after finitely many steps under fair random choices.
C12_GenerationTerminates == <>(pc = "idle")

\* two node arrays have the same members: every id as often in one as in the other
sameMembers(a, b) ==
    \A id \in IdSet(a) \cup IdSet(b) :
        Cardinality({i \in DOMAIN a : a[i].id = id})
        = Cardinality({i \in DOMAIN b : b[i].id = id})

\* C13: the event of each tick is accurate: linksRebuilt is true when the
\* resulting links are the set generated on this tick and false when they are
\* the retained links of the previous state, nodesChanged is true exactly when
\* the node membership changed, and rebuildCounter is 0 after a rebuild and
\* otherwise one more than before the tick.
C13_EventAccurate ==
    [][caller' = "tick" =>
          /\ event'.linksRebuilt => net'.links = wlinks'
          /\ ~event'.linksRebuilt => net'.links = existingLinks(net, net')
          /\ event'.nodesChanged <=> ~sameMembers(net'.nodes, net.nodes)
          /\ event'.rebuildCounter = IF event'.linksRebuilt THEN 0 ELSE rebuildCounter + 1
          /\ rebuildCounter' = event'.rebuildCounter]_vars

\* C14: with the floating-node family enabled, no link that link generation
\* produced, and no link of the live state, has a node of layer 'floating' as
\* its source or target, after generation and after any sequence of ticks.
C14_FloatingDisconnected ==
    /\ \A i \in DOMAIN wnodes :
          wnodes[i].layer = "floating" => wnodes[i].id \notin IdsOf(wlinks)
    /\ \A i \in DOMAIN net.nodes :
          net.nodes[i].layer = "floating" => net.nodes[i].id \notin IdsOf(net.links)

\* C15: after generation and after any sequence of ticks no two nodes of the
\* live node set have the same id.
C15_UniqueNodeIds ==
    \A i, j \in DOMAIN net.nodes : i # j => net.nodes[i].id # net.nodes[j].id

Abs(x) == IF x < 0 THEN -x ELSE x

\* C16: in every frame with delta >= 0 the smoothing factor lies in [0, 1),
\* and each smoothed value moves from its previous value toward its target:
\* the new value is between the two (no overshoot) and the change is at most
\* |target - previous|.
C16_SmoothingNoOvershoot ==
    [][/\ 0 <= smoothFactor(frame'.delta).num
       /\ smoothFactor(frame'.delta).num < smoothFactor(frame'.delta).den
       /\ \A b \in Buffers :
             /\ Min(frame.current[b], frame'.target[b]) <= frame'.current[b]
             /\ frame'.current[b] <= Max(frame.current[b], frame'.target[b])
             /\ Abs(frame'.current[b] - frame.current[b])
                   <= Abs(frame'.target[b] - frame.current[b])]_vars

\* a frame with delta > 0 left a value strictly between the values it can
\* start from and its target: it moved part of the way
C16_Witness ==
    /\ frame.delta > 0
    /\ \E b \in Buffers :
          /\ frame.target[b] = MaxValue
          /\ frame.current[b] > 1
          /\ frame.current[b] < MaxValue

\* what evolveDummyNetwork returned on the tick that is being taken
evolved == [nodes |-> wnodes', links |-> wlinks']

C18_NoRebuildKeepsSurvivors ==
    [][caller' = "tick" /\ ~event'.linksRebuilt
          => net'.links = existingLinks(net, net')]_vars

\* C19: after any tick every bridge, sub-strand and end-noise node of the
\* node set has its parentId, parentA and parentB referring to nodes that are
\* still present.
C19_ParentsPresent ==
    \A i \in DOMAIN net.nodes :
        net.nodes[i].layer \in {"bridge", "sub-strand", "end-noise"} =>
            {net.nodes[i].parentId, net.nodes[i].parentA, net.nodes[i].parentB}
                \subseteq IdSet(net.nodes) \cup {None}

\* C20: a tick lowers the node count only when the count is greater than
\* minNodes, and a node count that is at least minNodes is not brought below
\* minNodes by a tick.
C20_PruningRespectsMinimum ==
    [][caller' = "tick" =>
          /\ Len(net'.nodes) < Len(net.nodes)
                => Len(net.nodes) > evolutionParams(params).minNodes
          /\ Len(net.nodes) >= evolutionParams(params).minNodes
                => Len(net'.nodes) >= evolutionParams(params).minNodes]_vars

\* C21: a call of an auxiliary family on a node set of size s returns a node
\* set of size at most max(s, maxTotalNodes), and returns its argument
\* unchanged when s >= maxTotalNodes or the family is disabled.
C21_FamiliesClamp ==
    [][caller' \in FamilyNames =>
          /\ Len(net'.nodes) <= Max(Len(net.nodes), maxTotalNodes(caller', cfg))
          /\ Len(net.nodes) >= maxTotalNodes(caller', cfg) \/ ~familyEnabled(caller', cfg)
                => net'.nodes = net.nodes]_vars

\* a sub-strand chain of two nodes was cut after its first node, at the ceiling
C21_Witness ==
    /\ caller = "sub"
    /\ cfg.subCount[1] = 2
    /\ Len(wnodes) = cfg.subMax - 1
    /\ Len(net.nodes) = cfg.subMax

\* C22: a bridge or sub-strand generation run on a node set that already holds
\* bridge or sub-strand nodes appends no further node of that family for a
\* span (parentA, parentB) or a parent (parentId) that already has one.
C22_RefreshIdempotent ==
    [][caller' \in {"bridge", "sub"} =>
          \A i \in DOMAIN net'.nodes \ DOMAIN net.nodes :
              \A j \in DOMAIN net.nodes :
                  ~ /\ net.nodes[j].layer = net'.nodes[i].layer
                    /\ net.nodes[j].parentId = net'.nodes[i].parentId
                    /\ net.nodes[j].parentA = net'.nodes[i].parentA
                    /\ net.nodes[j].parentB = net'.nodes[i].parentB]_vars

\* C23: in every frame, whatever the live state, each link whose curve points
\* were computed has its source and its target among the displayed nodes.
C23_CurvesHaveBothEnds ==
    \A i \in DOMAIN render.curves :
        /\ render.curves[i].source \in IdSet(render.layoutNodes)
        /\ render.curves[i].target \in IdSet(render.layoutNodes)

\* a frame drew a link of a state that also holds a dangling link
C23_Witness ==
    /\ caller = "frame"
    /\ render.curves # <<>>
    /\ \E i \in DOMAIN net.links :
          net.links[i].source \notin IdSet(net.nodes) \/ net.links[i].target \notin IdSet(net.nodes)

\* C24: once the clean-up that follows a topology change has run, the
\* node-state cache holds entries only for nodes of the graph and the
\* link-state cache only for links of the graph.
C24_CachesFollowLiveSet ==
    /\ DOMAIN organic.nodes \subseteq IdSet(net.nodes)
    /\ \A key \in DOMAIN organic.links :
          \E i \in DOMAIN net.links :
              key = idString(net.links[i].source) \o <<45, 62>>
                        \o idString(net.links[i].target)

\* C25: a frame leaves the nodes array and the links array it was given as
\* they were: same elements, same order, same fields.
C25_FrameReadsOnly ==
    [][caller' = "frame" => net' = net]_vars

\* a frame displayed the nodes in another order than the array holds them
C25_Witness ==
    /\ caller = "frame"
    /\ render.layoutNodes # <<>>
    /\ render.layoutNodes # Slice(net.nodes, MAX_NODES)

\* C26: an update of the evolution parameters leaves the evolution timer's
\* closure alone: it does not reset the rebuild-interval counter.
C26_UpdateKeepsCounter ==
    [][caller' = "params" => rebuildCounter' = rebuildCounter]_vars

\* C27: a pulse update, wherever it falls between evolution ticks, keeps the
\* number and order of the nodes, every node field other than activation and
\* active, and the links array; the activation it writes lies within [0, 1].
C27_PulseNotStructural ==
    [][caller' = "pulse" =>
          /\ net'.links = net.links
          /\ DOMAIN net'.nodes = DOMAIN net.nodes
          /\ \A i \in DOMAIN net.nodes :
                /\ DOMAIN net'.nodes[i] = DOMAIN net.nodes[i]
                /\ \A f \in DOMAIN net.nodes[i] \ {"activation", "active"} :
                      net'.nodes[i][f] = net.nodes[i][f]
                /\ net'.nodes[i].activation \in 0..MaxActivation]_vars

\* a pulse ran after a tick that changed the membership, and a clamp cut in
C27_Witness ==
    /\ caller = "pulse"
    /\ event.nodesChanged
    /\ \E i \in DOMAIN net.nodes : net.nodes[i].activation = MaxActivation
    /\ \E i \in DOMAIN net.nodes : net.nodes[i].activation = 0

\* C28: an inbound message that is the JSON text of {type, payload}, with type
\* one of state_update, network_update, viz_update, activity, thought, leaves
\* the payload in the corresponding field of backendData (for activity, as
\* the last element of the list).
C28_MessageUpdatesField ==
    [][(/\ caller' = "message"
        /\ backend'.received.json.kind = "object"
        /\ fieldOf(backend'.received.json.type) # "none")
          => LET message == backend'.received.json
                 value == backend'.data[fieldOf(message.type)]
             IN  IF message.type = "activity"
                 THEN value # <<>> /\ value[Len(value)] = message.payload
                 ELSE value = message.payload]_vars

\* C29: a tick whose event reports nodesChanged false has left the set of
\* node ids as it was: no id was added and none was removed.
C29_UnchangedMeansSameIds ==
    [][(caller' = "tick" /\ ~event'.nodesChanged)
          => IdSet(net'.nodes) = IdSet(net.nodes)]_vars

\* C30: once the clean-up of useWebSocket has run, no reconnect timer is
\* pending and the instance makes no further WebSocket.
C30_TeardownFinal ==
    [][backend.cleaned =>
          /\ backend'.timers = 0
          /\ Len(backend'.sockets) = Len(backend.sockets)]_vars

=============================================================================
